---- MODULE Spec2Model ----
(***************************************************************************)
(* Model of the AE483 custom LQR controller/observer                       *)
(* (controller_custom_lqr.c): the file's static variables, the two sensor  *)
(* callbacks, the two parameters and the control tick controllerAE483.     *)
(*                                                                         *)
(* Numbers.  Every C float is a fixed-point integer counting units of      *)
(* 1/Scale.  A float literal keeps all the digits of the source: 3.524731f *)
(* is F(3524731, 6), the decimal 3524731 * 10^-6.  A product is computed   *)
(* exactly and truncated toward zero to the resolution 1/Scale, which      *)
(* stands for the rounding of IEEE single precision.  NaN and infinities   *)
(* are outside the model.  uint16_t values keep their width.               *)
(***************************************************************************)
EXTENDS Integers, Sequences, FiniteSets, TLC

VARIABLES sv, power, ev, ncalls, owed, pc, args, taken

vars == <<sv, power, ev, ncalls, owed, pc, args, taken>>

----------------------------------------------------------------------------
(* Bounds of the model *)

MaxCalls == 2
MaxSamples == 1
MaxRaceTicks == 2

----------------------------------------------------------------------------
(* Fixed-point arithmetic standing for float *)

Scale == 10 ^ 4
Limb == 10 ^ 4

Abs(x) == IF x < 0 THEN -x ELSE x
Sgn(x) == IF x < 0 THEN -1 ELSE 1

\* A float literal: the decimal m * 10^-e.
F(m, e) == [m |-> m, e |-> e]

\* trunc(a * m / 10^e) for a, m >= 0 and e <= 8, by two-limb long
\* multiplication so that no intermediate value leaves 32 bits.
Prod(a, m, e) ==
  LET a1 == a \div Limb
      a0 == a % Limb
      m1 == m \div Limb
      m0 == m % Limb
      c0 == a0 * m0
      mid == a1 * m0 + a0 * m1 + c0 \div Limb
      l0 == c0 % Limb
      l1 == mid % Limb
      hi == a1 * m1 + mid \div Limb
  IN IF e <= 4
       THEN hi * 10 ^ (8 - e) + (l1 * Limb + l0) \div 10 ^ e
       ELSE hi * 10 ^ (8 - e) + l1 \div 10 ^ (e - 4)

\* literal * value
Times(c, x) == Sgn(c.m) * Sgn(x) * Prod(Abs(x), Abs(c.m), c.e)

\* value * value
Mul(x, y) == Sgn(x) * Sgn(y) * Prod(Abs(x), Abs(y), 4)

\* the value of a literal
Val(c) == Times(c, Scale)

\* value / literal
Over(x, c) == Sgn(x) * Sgn(c.m) * ((Abs(x) * 10 ^ c.e) \div Abs(c.m))

----------------------------------------------------------------------------
(* Library functions the file calls (crazyflie-firmware, libm) *)

UINT16_MAX == 2 ^ 16 - 1

\* math3d.h: radians(degrees) = (M_PI_F / 180.0f) * degrees
radians(degrees) == Times(F(1745329, 8), degrees)

\* libm sinf and cosf, by their Taylor polynomials (|x| <= pi).
sinf(x) ==
  LET x2 == Mul(x, x)
      t4 == Scale - x2 \div 72
      t3 == Scale - Mul(x2, t4) \div 42
      t2 == Scale - Mul(x2, t3) \div 20
      t1 == Scale - Mul(x2, t2) \div 6
  IN Mul(x, t1)

cosf(x) ==
  LET x2 == Mul(x, x)
      t5 == Scale - x2 \div 90
      t4 == Scale - Mul(x2, t5) \div 56
      t3 == Scale - Mul(x2, t4) \div 30
      t2 == Scale - Mul(x2, t3) \div 12
  IN Scale - Mul(x2, t2) \div 2

\* The conversion of a float argument to the int32_t parameter of
\* limitUint16: truncation toward zero.
ToInt32(x) == Sgn(x) * (Abs(x) \div Scale)

\* num.h: uint16_t limitUint16(int32_t value)
limitUint16(value) ==
  IF value > UINT16_MAX THEN UINT16_MAX
  ELSE IF value < 0 THEN 0
  ELSE value

\* stabilizer_types.h: RATE_DO_EXECUTE(RATE_HZ, TICK)
RATE_MAIN_LOOP == 1000
ATTITUDE_RATE == 500
RATE_DO_EXECUTE(rate, tick) == (tick % (RATE_MAIN_LOOP \div rate)) = 0

modeDisable == "modeDisable"
modeAbs == "modeAbs"

----------------------------------------------------------------------------
(* Constants of the file *)

k_flow == F(409255568, 8)
g == F(981, 2)
dt == F(2, 3)
o_z_eq == F(5, 1)

----------------------------------------------------------------------------
(* The static variables after program start *)

Statics ==
  [ tof_count |-> 0, tof_distance |-> 0,
    flow_count |-> 0, flow_dpixelx |-> 0, flow_dpixely |-> 0,
    use_observer |-> FALSE, reset_observer |-> FALSE,
    o_x |-> 0, o_y |-> 0, o_z |-> 0,
    psi |-> 0, theta |-> 0, phi |-> 0,
    v_x |-> 0, v_y |-> 0, v_z |-> 0,
    w_x |-> 0, w_y |-> 0, w_z |-> 0,
    o_x_des |-> 0, o_y_des |-> 0, o_z_des |-> 0,
    tau_x |-> 0, tau_y |-> 0, tau_z |-> 0, f_z |-> 0,
    m_1 |-> 0, m_2 |-> 0, m_3 |-> 0, m_4 |-> 0,
    n_x |-> 0, n_y |-> 0, r |-> 0, a_z |-> 0,
    n_x_err |-> 0, n_y_err |-> 0, r_err |-> 0 ]

----------------------------------------------------------------------------
(* The sensor callbacks *)

\* (mutant) ++ on a counter wider than 16 bits
IncWide(c) == c + 1

\* uint16_t ++
Inc16(c) == (c + 1) % 2 ^ 16

ae483UpdateWithTOF(s, tof) ==
  [s EXCEPT !.tof_distance = tof.distance,
            !.tof_count = Inc16(s.tof_count)]

ae483UpdateWithFlow(s, flow) ==
  [s EXCEPT !.flow_dpixelx = flow.dpixelx,
            !.flow_dpixely = flow.dpixely,
            !.flow_count = Inc16(s.flow_count)]

----------------------------------------------------------------------------
(* The blocks of controllerAE483, each a function of the static variables *)

\* Desired position and measurements
MeasureBlock(s, setpoint, sensors) ==
  [s EXCEPT !.o_x_des = setpoint.position.x,
            !.o_y_des = setpoint.position.y,
            !.o_z_des = setpoint.position.z,
            !.w_x = radians(sensors.gyro.x),
            !.w_y = radians(sensors.gyro.y),
            !.w_z = radians(sensors.gyro.z),
            !.a_z = Times(g, sensors.acc.z),
            !.n_x = s.flow_dpixelx,
            !.n_y = s.flow_dpixely,
            !.r = s.tof_distance]

\* The body of if (reset_observer), without its last statement
ZeroState(s) ==
  [s EXCEPT !.o_x = 0, !.o_y = 0, !.o_z = 0,
            !.psi = 0, !.theta = 0, !.phi = 0,
            !.v_x = 0, !.v_y = 0, !.v_z = 0]

\* reset_observer = false
ClearReset(s) == [s EXCEPT !.reset_observer = FALSE]

\* (mutant) the zeroing without reset_observer = false
ResetKeepingFlag(s) == IF s.reset_observer THEN ZeroState(s) ELSE s

ResetBlock(s) ==
  IF s.reset_observer THEN ClearReset(ZeroState(s)) ELSE s

\* C x + D u - y
ErrorBlock(s) ==
  [s EXCEPT !.n_x_err = Times(k_flow, Over(s.v_x, o_z_eq) - s.w_y) - s.n_x,
            !.n_y_err = Times(k_flow, s.w_x + Over(s.v_y, o_z_eq)) - s.n_y,
            !.r_err = s.o_z - s.r]

\* The nine += statements of the observer.
Step_o_x(s) == [s EXCEPT !.o_x = s.o_x + Times(dt, s.v_x)]

Step_o_y(s) == [s EXCEPT !.o_y = s.o_y + Times(dt, s.v_y)]

Step_o_z(s) ==
  [s EXCEPT !.o_z = s.o_z + Times(dt, s.v_z - Times(F(3524731, 6), s.r_err))]

Step_psi(s) == [s EXCEPT !.psi = s.psi + Times(dt, s.w_z)]

Step_theta(s) ==
  [s EXCEPT !.theta = s.theta
                      + Times(dt, s.w_y - Times(F(29925, 6), s.n_x_err))]

Step_phi(s) ==
  [s EXCEPT !.phi = s.phi
                    + Times(dt, s.w_x - (-Times(F(24252, 6), s.n_y_err)))]

Step_v_x(s) ==
  [s EXCEPT !.v_x = s.v_x
                    + Times(dt, Times(g, s.theta)
                                  - Times(F(322134, 6), s.n_x_err))]

Step_v_y(s) ==
  [s EXCEPT !.v_y = s.v_y
                    + Times(dt, -Times(g, s.phi)
                                  - Times(F(317070, 6), s.n_y_err))]

Step_v_z(s) ==
  [s EXCEPT !.v_z = s.v_z
                    + Times(dt, s.a_z - Val(g) - Times(F(5676619, 6), s.r_err))]

\* The statements run in the order of the file: each reads the variables
\* as the statements before it left them.
UpdateBlock(s) ==
  Step_v_z(Step_v_y(Step_v_x(Step_phi(Step_theta(
    Step_psi(Step_o_z(Step_o_y(Step_o_x(s)))))))))

ObserverBlock(s) == UpdateBlock(ErrorBlock(s))

\* (mutant) the else branch without psi = radians(state->attitude.yaw)
PassThroughPoseKeepingYaw(s, state) ==
  [s EXCEPT !.o_x = state.position.x,
            !.o_y = state.position.y,
            !.o_z = state.position.z,
            !.theta = -radians(state.attitude.pitch),
            !.phi = radians(state.attitude.roll)]

\* The else branch: position and attitude from the firmware's state
PassThroughPose(s, state) ==
  [s EXCEPT !.o_x = state.position.x,
            !.o_y = state.position.y,
            !.o_z = state.position.z,
            !.psi = radians(state.attitude.yaw),
            !.theta = -radians(state.attitude.pitch),
            !.phi = radians(state.attitude.roll)]

\* The else branch: the velocity, rotated by the angles just assigned
PassThroughVelocity(s, vx, vy, vz, sps, cps, sth, cth, sph, cph) ==
  [s EXCEPT
     !.v_x = Mul(Mul(vx, cps), cth) + Mul(Mul(vy, sps), cth) - Mul(vz, sth),
     !.v_y = Mul(vx, Mul(Mul(sph, sth), cps) - Mul(sps, cph))
             + Mul(vy, Mul(Mul(sph, sps), sth) + Mul(cph, cps))
             + Mul(Mul(vz, sph), cth),
     !.v_z = Mul(vx, Mul(sph, sps) + Mul(Mul(sth, cph), cps))
             + Mul(vy, -Mul(sph, cps) + Mul(Mul(sps, sth), cph))
             + Mul(Mul(vz, cph), cth)]

Rotate(s, state) ==
  PassThroughVelocity(s, state.velocity.x, state.velocity.y, state.velocity.z,
                      sinf(s.psi), cosf(s.psi), sinf(s.theta), cosf(s.theta),
                      sinf(s.phi), cosf(s.phi))

PassThroughBlock(s, state) == Rotate(PassThroughPose(s, state), state)

EstimatorBlock(s, state) ==
  IF s.use_observer THEN ObserverBlock(s) ELSE PassThroughBlock(s, state)

\* (mutant) the control law on the position, not on the position error
ControlLawOnPosition(s) ==
  [s EXCEPT
     !.tau_x = Times(F(239430, 8), s.o_y)
               - Times(F(346463, 8), s.phi)
               + Times(F(135445, 8), s.v_y)
               - Times(F(47651, 8), s.w_x),
     !.tau_y = Times(F(-223966, 8), s.o_x)
               - Times(F(734151, 8), s.theta)
               - Times(F(186963, 8), s.v_x)
               - Times(F(129356, 8), s.w_y),
     !.tau_z = Times(F(-164210, 8), s.psi) - Times(F(39822, 8), s.w_z),
     !.f_z = Times(F(-11471886, 8), s.o_z)
             - Times(F(9147906, 8), s.v_z)
             + Val(F(35217900, 8))]

\* tau_x, tau_y, tau_z, f_z
ControlLaw(s) ==
  [s EXCEPT
     !.tau_x = Times(F(239430, 8), s.o_y - s.o_y_des)
               - Times(F(346463, 8), s.phi)
               + Times(F(135445, 8), s.v_y)
               - Times(F(47651, 8), s.w_x),
     !.tau_y = Times(F(-223966, 8), s.o_x - s.o_x_des)
               - Times(F(734151, 8), s.theta)
               - Times(F(186963, 8), s.v_x)
               - Times(F(129356, 8), s.w_y),
     !.tau_z = Times(F(-164210, 8), s.psi) - Times(F(39822, 8), s.w_z),
     !.f_z = Times(F(-11471886, 8), s.o_z - s.o_z_des)
             - Times(F(9147906, 8), s.v_z)
             + Val(F(35217900, 8))]

\* The four float arguments of limitUint16
Mix(s) ==
  << Times(F(-37069273, 1), s.tau_x) - Times(F(37069273, 1), s.tau_y)
       - Times(F(382189817, 1), s.tau_z) + Times(F(1223286, 1), s.f_z),
     Times(F(-37069273, 1), s.tau_x) + Times(F(37069273, 1), s.tau_y)
       + Times(F(382189817, 1), s.tau_z) + Times(F(1223286, 1), s.f_z),
     Times(F(37069273, 1), s.tau_x) + Times(F(37069273, 1), s.tau_y)
       - Times(F(382189817, 1), s.tau_z) + Times(F(1223286, 1), s.f_z),
     Times(F(37069273, 1), s.tau_x) - Times(F(37069273, 1), s.tau_y)
       + Times(F(382189817, 1), s.tau_z) + Times(F(1223286, 1), s.f_z) >>

\* (mutant) m_i = <float>, without limitUint16: the conversion to uint16_t
\* keeps the low 16 bits
CommandUnlimited(raw) == ToInt32(raw) % 2 ^ 16

\* m_i = limitUint16(<float>)
Command(raw) == limitUint16(ToInt32(raw))

SetMotors(s, raw) ==
  [s EXCEPT !.m_1 = Command(raw[1]), !.m_2 = Command(raw[2]),
            !.m_3 = Command(raw[3]), !.m_4 = Command(raw[4])]

MotorBlock(s) == SetMotors(s, Mix(s))

\* powerSet(m_1, m_2, m_3, m_4)
PowerSetMotors(s) == [sv |-> s, calls |-> << <<s.m_1, s.m_2, s.m_3, s.m_4>> >>]

\* (mutant) the else branch alone: the mode of the setpoint is not looked at
ActuationIgnoringMode(s, setpoint) == PowerSetMotors(MotorBlock(ControlLaw(s)))

\* if (setpoint->mode.z == modeDisable) ... else ...: the static variables
\* it leaves and the calls of powerSet it makes, in order.
ActuationBlock(s, setpoint) ==
  IF setpoint.mode.z = modeDisable
    THEN [sv |-> s, calls |-> << <<0, 0, 0, 0>> >>]
    ELSE PowerSetMotors(MotorBlock(ControlLaw(s)))

\* (mutant) the body of controllerAE483 without the rate condition
ControllerEveryCall(s, setpoint, sensors, state, tick) ==
  ActuationBlock(
    EstimatorBlock(ResetBlock(MeasureBlock(s, setpoint, sensors)), state),
    setpoint)

\* One call of controllerAE483
Controller(s, setpoint, sensors, state, tick) ==
  IF RATE_DO_EXECUTE(ATTITUDE_RATE, tick)
    THEN ActuationBlock(
           EstimatorBlock(ResetBlock(MeasureBlock(s, setpoint, sensors)),
                          state),
           setpoint)
    ELSE [sv |-> s, calls |-> << >>]

----------------------------------------------------------------------------
(* The arguments the environment supplies *)

Vec(x, y, z) == [x |-> x, y |-> y, z |-> z]

Setpoints ==
  { [position |-> Vec(0, 0, 0), mode |-> [z |-> modeAbs]],
    [position |-> Vec(Scale, -Scale, 2 * Scale), mode |-> [z |-> modeAbs]],
    [position |-> Vec(Scale, -Scale, 2 * Scale), mode |-> [z |-> modeDisable]] }

\* What the firmware hands over in one tick: the sensor data (gyro in
\* deg/s, acc in g) and its own state estimate (position in m, attitude in
\* deg, velocity in m/s).  The first is a vehicle at rest, the second one
\* that moves and turns.
Flights ==
  { [sensors |-> [gyro |-> Vec(0, 0, 0), acc |-> [z |-> Scale]],
     state |-> [position |-> Vec(Scale, -Scale, 2 * Scale),
                attitude |-> [roll |-> 0, pitch |-> 0, yaw |-> 0],
                velocity |-> Vec(0, 0, 0)]],
    [sensors |-> [gyro |-> Vec(30 * Scale, 1000 * Scale, -20 * Scale),
                  acc |-> [z |-> (12 * Scale) \div 10]],
     state |-> [position |-> Vec(Scale \div 2, Scale \div 4, 4 * Scale),
                attitude |-> [roll |-> 10 * Scale, pitch |-> -20 * Scale,
                              yaw |-> 90 * Scale],
                velocity |-> Vec(Scale, -Scale \div 2, Scale \div 4)]] }

Ticks == {4, 5}

TofSamples == { [distance |-> Scale \div 2] }

FlowSamples == { [dpixelx |-> 100 * Scale, dpixely |-> -40 * Scale] }

----------------------------------------------------------------------------
(* State: sv, the static variables of the file; power, the calls of        *)
(* powerSet made by the last call of controllerAE483, in order; ev, the    *)
(* last operation and its arguments; ncalls, the calls of controllerAE483  *)
(* so far; owed, whether reset_observer has been set to true and no        *)
(* zeroing has happened since.  For a tick that runs statement by          *)
(* statement beside the parameter task: pc, its position; args, its        *)
(* arguments; taken, the value its test of reset_observer read.            *)

Init ==
  /\ sv = Statics
  /\ power = << >>
  /\ ev = [op |-> "start"]
  /\ ncalls = 0
  /\ owed = FALSE
  /\ pc = "idle"
  /\ args = [op |-> "none"]
  /\ taken = FALSE

Est(s) == <<s.o_x, s.o_y, s.o_z, s.psi, s.theta, s.phi, s.v_x, s.v_y, s.v_z>>

\* The record of one call of controllerAE483: its arguments, whether the
\* rate condition let it run, and what it found in the static variables.
Call(setpoint, sensors, state, tick) ==
  IF RATE_DO_EXECUTE(ATTITUDE_RATE, tick)
    THEN [op |-> "controller", executed |-> TRUE, tick |-> tick,
          setpoint |-> setpoint, sensors |-> sensors, state |-> state,
          reset |-> sv.reset_observer, observer |-> sv.use_observer,
          nonzero |-> \E i \in 1..9 : Est(sv)[i] # 0]
    ELSE [op |-> "controller", executed |-> FALSE, tick |-> tick]

\* The stabilizer loop calls the controller; the tick runs to its end.
controllerAE483 ==
  /\ pc = "idle"
  /\ ncalls < MaxCalls
  /\ \E setpoint \in Setpoints, fl \in Flights, tick \in Ticks :
       \E res \in {Controller(sv, setpoint, fl.sensors, fl.state, tick)} :
          /\ sv' = res.sv
          /\ power' = res.calls
          /\ ev' = Call(setpoint, fl.sensors, fl.state, tick)
          /\ owed' = (owed /\ ~(ev'.executed /\ sv.reset_observer))
  /\ ncalls' = ncalls + 1
  /\ UNCHANGED <<pc, args, taken>>

UpdateWithTOF ==
  \E tof \in TofSamples :
    /\ sv' = ae483UpdateWithTOF(sv, tof)
    /\ ev' = [op |-> "tof", tof |-> tof]
    /\ UNCHANGED <<power, ncalls, owed, pc, args, taken>>

UpdateWithFlow ==
  \E flow \in FlowSamples :
    /\ sv' = ae483UpdateWithFlow(sv, flow)
    /\ ev' = [op |-> "flow", flow |-> flow]
    /\ UNCHANGED <<power, ncalls, owed, pc, args, taken>>

\* ae483par: the parameter task writes use_observer
ParamUseObserver(v) ==
  /\ sv' = [sv EXCEPT !.use_observer = v]
  /\ ev' = [op |-> "param"]
  /\ UNCHANGED <<power, ncalls, owed, pc, args, taken>>

\* ae483par: the parameter task writes reset_observer
ParamResetObserver(v) ==
  /\ sv' = [sv EXCEPT !.reset_observer = v]
  /\ ev' = [op |-> "param"]
  /\ owed' = v
  /\ UNCHANGED <<power, ncalls, pc, args, taken>>

Next ==
  \/ controllerAE483
  \/ (sv.tof_count < MaxSamples /\ UpdateWithTOF)
  \/ (sv.flow_count < MaxSamples /\ UpdateWithFlow)
  \/ \E v \in BOOLEAN : ParamUseObserver(v)
  \/ \E v \in BOOLEAN : ParamResetObserver(v)

Spec == Init /\ [][Next]_vars

----------------------------------------------------------------------------
(* The sensor callbacks alone, with one of the two counters left free to   *)
(* run through all of uint16_t.                                            *)

NextCount ==
  \/ (sv.flow_count <= MaxSamples /\ UpdateWithTOF)
  \/ (sv.tof_count <= MaxSamples /\ UpdateWithFlow)

SpecCount == Init /\ [][NextCount]_vars

----------------------------------------------------------------------------
(* A tick that runs beside the parameter task: the task may write          *)
(* reset_observer between any two of the tick's statements.  Only calls    *)
(* that pass the rate condition are followed.                              *)

TickBegin ==
  /\ pc = "idle"
  /\ ncalls < MaxRaceTicks
  /\ \E setpoint \in Setpoints, fl \in Flights,
        tick \in {t \in Ticks : RATE_DO_EXECUTE(ATTITUDE_RATE, t)} :
       /\ sv' = MeasureBlock(sv, setpoint, fl.sensors)
       /\ args' = Call(setpoint, fl.sensors, fl.state, tick)
  /\ power' = << >>
  /\ ev' = [op |-> "begin"]
  /\ ncalls' = ncalls + 1
  /\ pc' = "test"
  /\ UNCHANGED <<owed, taken>>

\* if (reset_observer)
TickTest ==
  /\ pc = "test"
  /\ taken' = sv.reset_observer
  /\ pc' = IF sv.reset_observer THEN "zero" ELSE "estimate"
  /\ ev' = [op |-> "test"]
  /\ UNCHANGED <<sv, power, ncalls, owed, args>>

\* o_x = 0.0f; ... v_z = 0.0f;
TickZero ==
  /\ pc = "zero"
  /\ sv' = ZeroState(sv)
  /\ owed' = FALSE
  /\ pc' = "clear"
  /\ ev' = [op |-> "zero"]
  /\ UNCHANGED <<power, ncalls, args, taken>>

\* reset_observer = false;
TickClear ==
  /\ pc = "clear"
  /\ sv' = ClearReset(sv)
  /\ pc' = "estimate"
  /\ ev' = [op |-> "clear"]
  /\ UNCHANGED <<power, ncalls, owed, args, taken>>

\* the estimator, the controller and powerSet
TickEnd ==
  /\ pc = "estimate"
  /\ \E res \in {ActuationBlock(EstimatorBlock(sv, args.state), args.setpoint)} :
       /\ sv' = res.sv
       /\ power' = res.calls
  /\ ev' = args
  /\ pc' = "idle"
  /\ UNCHANGED <<ncalls, owed, args, taken>>

NextRace ==
  \/ TickBegin
  \/ TickTest
  \/ TickZero
  \/ TickClear
  \/ TickEnd
  \/ ParamResetObserver(TRUE)
  \/ \E v \in BOOLEAN : ParamUseObserver(v)

SpecRace == Init /\ [][NextRace]_vars

----------------------------------------------------------------------------
(* Vocabulary of the properties *)

\* The last operation was a call of controllerAE483 that ran.
Ticked == ev.op = "controller" /\ ev.executed

\* This step is a call of controllerAE483 that runs.
TickStep == ev'.op = "controller" /\ ev'.executed

Disabled == ev.setpoint.mode.z = modeDisable

Motors(s) == <<s.m_1, s.m_2, s.m_3, s.m_4>>

Est12(s) == Est(s) \o <<s.w_x, s.w_y, s.w_z>>

\* A float clamped to the range of uint16_t
Clamp(raw) ==
  IF raw < 0 THEN 0
  ELSE IF raw > UINT16_MAX * Scale THEN UINT16_MAX
  ELSE raw \div Scale

----------------------------------------------------------------------------
\* C1 (disarm safety): after every executed tick whose setpoint has z-mode
\* modeDisable, the one motor command handed to powerSet is (0,0,0,0),
\* whatever the history, the estimator mode, the reset flag and the values
\* of the static variables.
C1_DisarmSafety ==
  (Ticked /\ Disabled) => power = << <<0, 0, 0, 0>> >>

\* A disabled tick that found a nonzero estimate and nonzero motor
\* variables left by earlier ticks.
C1_Witness ==
  /\ Ticked /\ Disabled
  /\ ev.nonzero /\ sv.m_1 > 0 /\ sv.tau_y # 0
  /\ power = << <<0, 0, 0, 0>> >>

----------------------------------------------------------------------------
\* C3 (saturation boundary): after every executed tick with z-mode enabled,
\* each of the four commands handed to powerSet is the raw mixed value of
\* tau_x, tau_y, tau_z, f_z clamped to 0..65535 (0 below 0, 65535 above
\* 65535, the raw value cut to an integer otherwise), never the raw value
\* modulo 2^16.
C3_Saturation ==
  (Ticked /\ ~Disabled) =>
     /\ Len(power) = 1
     /\ \A i \in 1..4 : power[1][i] = Clamp(Mix(sv)[i])

\* An enabled tick with one raw value above 65535, one below 0 and the
\* commands at the two boundaries.
C3_Witness ==
  /\ Ticked /\ ~Disabled
  /\ \E i, j \in 1..4 :
       /\ Mix(sv)[i] > UINT16_MAX * Scale /\ power[1][i] = UINT16_MAX
       /\ Mix(sv)[j] < 0 /\ power[1][j] = 0

----------------------------------------------------------------------------
\* C7 (hover at trim): after an executed tick with z-mode enabled whose
\* estimate is at rest (zero velocity, attitude and angular rate) at the
\* desired position, tau_x = tau_y = tau_z = 0, f_z is the equilibrium
\* thrust 0.35217900 and the four motor commands are equal.
AtTrim(s) ==
  /\ s.o_x = s.o_x_des /\ s.o_y = s.o_y_des /\ s.o_z = s.o_z_des
  /\ s.psi = 0 /\ s.theta = 0 /\ s.phi = 0
  /\ s.v_x = 0 /\ s.v_y = 0 /\ s.v_z = 0
  /\ s.w_x = 0 /\ s.w_y = 0 /\ s.w_z = 0

C7_HoverAtTrim ==
  (Ticked /\ ~Disabled /\ AtTrim(sv)) =>
     /\ sv.tau_x = 0 /\ sv.tau_y = 0 /\ sv.tau_z = 0
     /\ sv.f_z = Val(F(35217900, 8))
     /\ \A i \in 2..4 : power[1][i] = power[1][1]
     /\ Motors(sv) = power[1]

\* Hover away from the origin, with a command strictly inside the range.
C7_Witness ==
  /\ Ticked /\ ~Disabled /\ AtTrim(sv)
  /\ sv.o_y # 0 /\ sv.o_z # 0
  /\ power[1][1] > 0 /\ power[1][1] < UINT16_MAX

----------------------------------------------------------------------------
\* C9 (publish once per tick): a call of controllerAE483 that passes the
\* rate condition hands exactly one command to powerSet; a call that does
\* not hands none and leaves every static variable as it was.
C9_PublishOnce ==
  [][(ev'.op = "controller") =>
       IF ev'.executed
         THEN Len(power') = 1
         ELSE Len(power') = 0 /\ sv' = sv]_vars

\* A call that did not pass the rate condition, after a tick that had set
\* the motors.
C9_Witness ==
  /\ ev.op = "controller" /\ ~ev.executed
  /\ power = << >>
  /\ sv.m_1 > 0

----------------------------------------------------------------------------
\* C10 (exposed motor commands are current): after every executed tick the
\* logged m_1..m_4 are the four commands handed to powerSet in that tick.
C10_ExposedCurrent ==
  Ticked => (Len(power) = 1 /\ power[1] = Motors(sv))

----------------------------------------------------------------------------
\* The tick of this step, run again from the static variables s.
Rerun(s) ==
  Controller(s, ev'.setpoint, ev'.sensors, ev'.state, ev'.tick).sv

----------------------------------------------------------------------------
\* C4 (mode exclusivity).  "Depends only on" is stated against a second
\* run: the same tick started from the static variables of program start,
\* into which only the named inputs are copied, with another setpoint and
\* every argument that is not named replaced.

OtherSetpoint == [position |-> Vec(0, 0, 0), mode |-> [z |-> modeDisable]]

OtherState ==
  [position |-> Vec(0, 0, 0), attitude |-> [roll |-> 0, pitch |-> 0, yaw |-> 0],
   velocity |-> Vec(0, 0, 0)]

\* Pass-through: only the external state and the gyro sample are kept.
SecondRunPassThrough ==
  Controller(Statics, OtherSetpoint,
             [gyro |-> ev'.sensors.gyro, acc |-> [z |-> 0]],
             ev'.state, ev'.tick).sv

\* Observer: only the previous estimate, the buffered measurements, gyro
\* and accel-z are kept; the reset flag is as given.
SecondRunObserver(reset) ==
  Controller([Statics EXCEPT
                !.o_x = sv.o_x, !.o_y = sv.o_y, !.o_z = sv.o_z,
                !.psi = sv.psi, !.theta = sv.theta, !.phi = sv.phi,
                !.v_x = sv.v_x, !.v_y = sv.v_y, !.v_z = sv.v_z,
                !.flow_dpixelx = sv.flow_dpixelx,
                !.flow_dpixely = sv.flow_dpixely,
                !.tof_distance = sv.tof_distance,
                !.use_observer = TRUE,
                !.reset_observer = reset],
             OtherSetpoint, ev'.sensors, OtherState, ev'.tick).sv

\* C4 as stated: the 12 fields after a pass-through tick are a function of
\* the external state and the gyro alone, and the 12 fields after an
\* observer tick are a function of the previous estimate, the buffered
\* measurements, gyro, accel-z and dt alone.
C4_ModeExclusivity ==
  [][TickStep =>
       /\ ~sv.use_observer =>
            \A second \in {SecondRunPassThrough} : Est12(sv') = Est12(second)
       /\ sv.use_observer =>
            \A second \in {SecondRunObserver(FALSE)} :
               Est12(sv') = Est12(second)]_vars

\* C4 amended: as C4, but the observer tick's output is a function of the
\* previous estimate, the buffered measurements, gyro, accel-z, dt and
\* the reset flag.
C4_ModeExclusivityWithReset ==
  [][TickStep =>
       /\ ~sv.use_observer =>
            \A second \in {SecondRunPassThrough} : Est12(sv') = Est12(second)
       /\ sv.use_observer =>
            \A second \in {SecondRunObserver(sv.reset_observer)} :
               Est12(sv') = Est12(second)]_vars

\* A pass-through tick after an observer tick (only the observer writes
\* n_x_err) that found a nonzero estimate.
C4_Witness ==
  /\ Ticked /\ ~ev.observer /\ ev.nonzero
  /\ sv.n_x_err # 0
  /\ sv.o_z = ev.state.position.z

----------------------------------------------------------------------------
\* C5 as stated: every call of ae483UpdateWithTOF (ae483UpdateWithFlow)
\* overwrites the buffered sample and leaves the sensor's counter strictly
\* greater than it was.
C5_CountersIncrease ==
  [][/\ (ev'.op = "tof") =>
          /\ sv'.tof_distance = ev'.tof.distance
          /\ sv'.tof_count > sv.tof_count
     /\ (ev'.op = "flow") =>
          /\ sv'.flow_dpixelx = ev'.flow.dpixelx
          /\ sv'.flow_dpixely = ev'.flow.dpixely
          /\ sv'.flow_count > sv.flow_count]_vars

\* C5 amended: every call overwrites the buffered sample and increments
\* the sensor's counter modulo 2^16: the counter is strictly greater after
\* the call except at 65535, from where it returns to 0.
C5_CountersModulo ==
  [][/\ (ev'.op = "tof") =>
          /\ sv'.tof_distance = ev'.tof.distance
          /\ sv'.tof_count = (sv.tof_count + 1) % 2 ^ 16
          /\ (sv.tof_count < UINT16_MAX) => sv'.tof_count > sv.tof_count
          /\ (sv.tof_count = UINT16_MAX) => sv'.tof_count = 0
     /\ (ev'.op = "flow") =>
          /\ sv'.flow_dpixelx = ev'.flow.dpixelx
          /\ sv'.flow_dpixely = ev'.flow.dpixely
          /\ sv'.flow_count = (sv.flow_count + 1) % 2 ^ 16
          /\ (sv.flow_count < UINT16_MAX) => sv'.flow_count > sv.flow_count
          /\ (sv.flow_count = UINT16_MAX) => sv'.flow_count = 0]_vars

\* The call of ae483UpdateWithFlow that takes flow_count from 65535 to 0.
C5_Witness ==
  /\ ev.op = "flow"
  /\ sv.flow_count = 0
  /\ sv.flow_dpixelx = ev.flow.dpixelx

----------------------------------------------------------------------------
\* C6 (race-free reset): with the parameter task setting reset_observer
\* between the statements of a running tick, no setting of the flag is
\* missed: while a setting has not been followed by a zeroing, the flag is
\* still set or the tick is about to zero.
C6_NoMissedReset ==
  owed => (sv.reset_observer \/ pc = "zero")

----------------------------------------------------------------------------
\* The forward-Euler step: every variable advanced by dt times its
\* derivative, all derivatives read from the one state s.
EulerStep(s) ==
  [s EXCEPT
     !.o_x = s.o_x + Times(dt, s.v_x),
     !.o_y = s.o_y + Times(dt, s.v_y),
     !.o_z = s.o_z + Times(dt, s.v_z - Times(F(3524731, 6), s.r_err)),
     !.psi = s.psi + Times(dt, s.w_z),
     !.theta = s.theta + Times(dt, s.w_y - Times(F(29925, 6), s.n_x_err)),
     !.phi = s.phi + Times(dt, s.w_x - (-Times(F(24252, 6), s.n_y_err))),
     !.v_x = s.v_x + Times(dt, Times(g, s.theta)
                                 - Times(F(322134, 6), s.n_x_err)),
     !.v_y = s.v_y + Times(dt, -Times(g, s.phi)
                                 - Times(F(317070, 6), s.n_y_err)),
     !.v_z = s.v_z + Times(dt, s.a_z - Val(g)
                                 - Times(F(5676619, 6), s.r_err))]

\* C8 (forward-Euler observer step): an executed tick in internal-observer
\* mode leaves each of the nine integrated variables at old + dt *
\* (nominal derivative + gain * residual), all read from the estimate as
\* it was at the start of the integration step (after any reset).
C8_ForwardEuler ==
  [][(TickStep /\ sv.use_observer) =>
       \A euler \in {EulerStep(ErrorBlock(ResetBlock(
                         MeasureBlock(sv, ev'.setpoint, ev'.sensors))))} :
          Est(sv') = Est(euler)]_vars

====
